---- MODULE Spec2Model ----
(***************************************************************************)
(* The export/build pipeline of science (src/science/exe.py): the `export` *)
(* and `build` commands, the `_export` generator they both drive, and the  *)
(* scoped staging root of `build`.                                         *)
(*                                                                         *)
(* The filesystem is modelled as far as exe.py reads and writes it: the    *)
(* per-platform directories under the destination root of `_export`, the   *)
(* staging root of `build`, and the destination directory of `build`.      *)
(* External collaborators (fetch_and_verify, a_scie, the packer child      *)
(* process) are modelled by their call contract, with failure a            *)
(* nondeterministic input of the step that calls them.                     *)
(***************************************************************************)
EXTENDS Integers, Sequences, FiniteSets, TLC

VARIABLES
    application,          \* parse_config(config): the Application
    opts,                 \* the command line options of the invocation
    cmd,                  \* "none" | "export" | "build"
    pc,                   \* position in the running command
    status,               \* "idle" | "running" | "ok" | an error kind
    platforms,            \* build: the effective platform set
    use_platform_suffix,  \* build: the local of line 258
    remaining,            \* _export: platforms the generator has not reached
    platform,             \* _export: the platform of the last generator step
    files_done,           \* _export: files the last generator step got through
    chroots,              \* the directories <dest_dir of _export>/<platform>
    td,                   \* build: the staging root: "none" | "exists" | "deleted"
    dest_dir,             \* build: entries of --dest-dir
    stdout,               \* click.echo lines of the invocation
    warned,               \* build: the yellow warning of lines 260-268 was printed
    jumps,                \* build: scie-jump binaries acquired through a_scie
    packer_runs           \* build: the packer child processes run, with their outcome

vars == <<application, opts, cmd, pc, status, platforms, use_platform_suffix,
          remaining, platform, files_done, chroots, td, dest_dir, stdout, warned,
          jumps, packer_runs>>

----------------------------------------------------------------------------
(* Bounds and enumerations *)

\* The longest list of application-declared files.
MaxFiles == 2

\* Platform is an enumeration; two of its values, the first the one the tool runs on.
PlatformValues == {"linux-x86_64", "macos-aarch64"}

\* Platform.current()
current_platform == "linux-x86_64"

NoPlatform == "none"

\* Names of the application-declared files, by position in application.files.
FileNameAt == <<"a", "b", "c", "d">>

\* A file or entry name: <<base, platform qualifier>>.
Named(base) == <<base, "">>

ApplicationName == "app"

LiftJson == Named("lift.json")

----------------------------------------------------------------------------
(* Digests *)

NoDigest == <<"none", "">>

\* The fingerprint of a content; distinct contents have distinct fingerprints.
Fingerprint(content) == <<"sha256", content>>

----------------------------------------------------------------------------
(* The data model exe.py imports from science.model: File, Fetch, Command *)

\* The bytes every declared file really has, and bytes it does not have.
Bytes == "bytes"
OtherBytes == "other"

\* A File whose source is None: it must be supplied locally.  is_mapped: a
\* --file mapping names its id; on_disk: the path it resolves to exists.
LocalFile(name, digest, is_mapped, on_disk) ==
    [name |-> Named(name), id |-> name, source |-> "None", lazy |-> FALSE,
     url |-> "", digest |-> digest, is_mapped |-> is_mapped,
     on_disk |-> on_disk, content |-> Bytes]

\* A File whose source is Fetch(url, lazy); content: what the url serves.
FetchFile(name, digest, lazy) ==
    [name |-> Named(name), id |-> name, source |-> "Fetch", lazy |-> lazy,
     url |-> name, digest |-> digest, is_mapped |-> FALSE,
     on_disk |-> FALSE, content |-> Bytes]

\* The files a configuration can declare under the name `name`.
FileChoices(name) ==
    { LocalFile(name, NoDigest, TRUE, TRUE),
      LocalFile(name, Fingerprint(Bytes), FALSE, TRUE),
      LocalFile(name, Fingerprint(OtherBytes), TRUE, TRUE),
      LocalFile(name, NoDigest, FALSE, FALSE),
      FetchFile(name, Fingerprint(Bytes), FALSE),
      FetchFile(name, Fingerprint(OtherBytes), FALSE),
      FetchFile(name, NoDigest, TRUE) }

\* The lists of declared files of a given length.
RECURSIVE FileLists(_)
FileLists(n) ==
    IF n = 0 THEN { <<>> }
    ELSE { Append(fs, f) : fs \in FileLists(n - 1), f \in FileChoices(FileNameAt[n]) }

\* An interpreter provider: the source of its distribution's file and the
\* platforms it has a distribution for.
Providers ==
    { [lazy |-> FALSE, supported |-> PlatformValues],
      [lazy |-> TRUE, supported |-> PlatformValues \ {current_platform}] }

\* interpreter.provider.distribution(platform): a Distribution or None.
HasDistribution(provider, plat) == plat \in provider.supported

DistributionFile(provider, plat) ==
    [name |-> <<"python", plat>>, id |-> "python", source |-> "Fetch",
     lazy |-> provider.lazy, url |-> "python", digest |-> Fingerprint(Bytes),
     is_mapped |-> FALSE, on_disk |-> FALSE, content |-> Bytes]

\* A Command: a binding or command of the application.
Command(name, exe, argv1) == [name |-> name, exe |-> exe, argv1 |-> argv1]

\* Fetch.create_binding(fetch_exe, argv1)
create_binding(fetch_exe, argv1) == Command("fetch", fetch_exe.name, argv1)

\* application.ptex: None, or a specification with an argv1.
NoPtexSpec == [given |-> FALSE, argv1 |-> ""]
PtexSpecs == { NoPtexSpec, [given |-> TRUE, argv1 |-> "{custom}"] }

\* application.bindings: none, or two in a declared order.
DeclaredBindings ==
    { <<>>, <<Command("b1", Named("a"), ""), Command("b2", Named("b"), "")>> }

\* application.scie_jump.version: None, or a release <<major, minor, patch>>.
NoVersion == <<>>
Versions == { NoVersion, <<0, 8, 12>>, <<0, 9, 0>>, <<0, 10, 0>> }

\* version.parse("0.9.0")
ScieJumpFloor == <<0, 9, 0>>

\* packaging's Version.__lt__ on releases: lexicographic on the components.
RECURSIVE VersionLess(_, _)
VersionLess(v, w) ==
    IF v = <<>> \/ w = <<>> THEN v = <<>> /\ w # <<>>
    ELSE IF Head(v) # Head(w) THEN Head(v) < Head(w)
    ELSE VersionLess(Tail(v), Tail(w))

Applications ==
    { [name |-> ApplicationName, platforms |-> ps, interpreters |-> is,
       files |-> fs, bindings |-> bs, ptex |-> px, scie_jump |-> v] :
        ps \in (SUBSET PlatformValues) \ { {} },
        is \in { <<>> } \cup { <<p>> : p \in Providers },
        fs \in UNION { FileLists(n) : n \in 0..MaxFiles },
        bs \in DeclaredBindings, px \in PtexSpecs, v \in Versions }

----------------------------------------------------------------------------
(* The filesystem *)

\* A path: the place it lies in, and its name there.
Path(at, name) == [at |-> at, name |-> name]

\* An entry of a per-platform directory.  by: the call that made it; fresh:
\* it was made by the running invocation.
Entry(name, target, by) == [name |-> name, target |-> target, by |-> by, fresh |-> TRUE]

NoManifest ==
    [written |-> FALSE, files |-> <<>>, bindings |-> <<>>, fetch_urls |-> {}]

\* A directory that does not exist.
NoDir == [exists |-> FALSE, entries |-> {}, manifest |-> NoManifest]

EmptyDir == [exists |-> TRUE, entries |-> {}, manifest |-> NoManifest]

\* A directory left behind by someone else, holding a file no export makes.
StaleDir ==
    [exists |-> TRUE,
     entries |-> { [name |-> Named("stale"), target |-> Path("cwd", Named("stale")),
                    by |-> "stale", fresh |-> FALSE] },
     manifest |-> NoManifest]

HasEntry(entries, name) == \E e \in entries : e.name = name

\* Everything in the directories now predates the next invocation.
Aged(dirs) ==
    [p \in PlatformValues |->
        [dirs[p] EXCEPT !.entries = { [e EXCEPT !.fresh = FALSE] : e \in @ }]]

----------------------------------------------------------------------------
(* _export, lines 94-189: one platform, from the loop head to the yield *)

\* Lines 112-114: the --file mappings by id.  A mapping is given for the
\* files declared is_mapped.
file_paths_by_id(app) ==
    [id \in { app.files[i].id : i \in { j \in DOMAIN app.files : app.files[j].is_mapped } }
        |-> Path("mapping", Named(id))]

\* Lines 117-121: the files of the distributions the interpreters have for plat.
RECURSIVE DistributionFiles(_, _)
DistributionFiles(interpreters, plat) ==
    IF interpreters = <<>> THEN <<>>
    ELSE (IF HasDistribution(Head(interpreters), plat)
          THEN <<DistributionFile(Head(interpreters), plat)>>
          ELSE <<>>) \o DistributionFiles(Tail(interpreters), plat)

\* Lines 117-122: files, before the fetch helper is considered.
DeclaredFiles(app, plat) == DistributionFiles(app.interpreters, plat) \o app.files

\* Line 124: any(isinstance(file.source, Fetch) and file.source.lazy for file in files)
AnyLazy(files) == \E i \in DOMAIN files : files[i].source = "Fetch" /\ files[i].lazy

\* Line 125: the File a_scie.ptex returns for plat.
PtexFile(plat) ==
    [name |-> <<"ptex", plat>>, id |-> "ptex", source |-> "None", lazy |-> FALSE,
     url |-> "", digest |-> NoDigest, is_mapped |-> FALSE, on_disk |-> FALSE,
     content |-> Bytes]

\* Lines 124-127: the working file set.
Files(app, plat) ==
    IF AnyLazy(DeclaredFiles(app, plat))
    THEN Append(DeclaredFiles(app, plat), PtexFile(plat))
    ELSE DeclaredFiles(app, plat)

\* Lines 128-132
Argv1(app) == IF app.ptex.given /\ app.ptex.argv1 # "" THEN app.ptex.argv1 ELSE "{scie.lift}"

\* Bindings with the synthesized binding appended after the declared ones.
BindingsFetchLast(app, plat) ==
    IF AnyLazy(DeclaredFiles(app, plat))
    THEN app.bindings \o <<create_binding(PtexFile(plat), Argv1(app))>>
    ELSE app.bindings

\* Lines 109, 124-134: the bindings of the manifest.
Bindings(app, plat) ==
    IF AnyLazy(DeclaredFiles(app, plat))
    THEN <<create_binding(PtexFile(plat), Argv1(app))>> \o app.bindings
    ELSE app.bindings

\* Lines 125-126: file_paths_by_id once the fetch helper is known.
PathsById(app, plat) ==
    IF AnyLazy(DeclaredFiles(app, plat))
    THEN [id \in DOMAIN file_paths_by_id(app) \cup {"ptex"} |->
            IF id = "ptex" THEN Path("chroot", PtexFile(plat).name)
            ELSE file_paths_by_id(app)[id]]
    ELSE file_paths_by_id(app)

\* Line 125: a_scie.ptex(chroot, ...) leaves the fetch helper in chroot, as a
\* link to the binary it fetched.
PtexLoaded(entries, plat) ==
    IF HasEntry(entries, PtexFile(plat).name) THEN entries
    ELSE entries \cup { Entry(PtexFile(plat).name, Path("cache", PtexFile(plat).name), "ptex") }

\* Line 147: file_path.exists()
PathExists(file, path, entries) ==
    CASE path.at = "chroot" -> HasEntry(entries, path.name)
      [] path.at = "cache" -> TRUE
      [] OTHER -> file.on_disk

\* fetch_and_verify(url, fingerprint, executable): fails when the network
\* does, or when what the url serves does not have the fingerprint.
fetch_and_verify(file, net) ==
    IF ~net THEN [err |-> "FetchFailed", path |-> Path("cache", file.name)]
    ELSE IF file.digest # NoDigest /\ Fingerprint(file.content) # file.digest
    THEN [err |-> "DigestMismatch", path |-> Path("cache", file.name)]
    ELSE [err |-> "", path |-> Path("cache", file.name)]

\* File.maybe_check_digest(path): the error it raises, "" when it raises none.
maybe_check_digest(file, path) ==
    IF file.digest # NoDigest /\ Fingerprint(file.content) # file.digest
    THEN "DigestMismatch" ELSE ""

\* Lines 138-152: the match on file.source.  kind: "url" | "path" | "error".
Resolve(file, paths, entries, net) ==
    IF file.source = "Fetch" /\ file.lazy
    THEN [kind |-> "url", err |-> "", path |-> Path("", file.name)]
    ELSE IF file.source = "Fetch"
    THEN LET r == fetch_and_verify(file, net)
         IN  [kind |-> IF r.err = "" THEN "path" ELSE "error", err |-> r.err,
              path |-> r.path]
    ELSE LET file_path == IF file.id \in DOMAIN paths THEN paths[file.id]
                          ELSE Path("cwd", file.name)
         IN  IF PathExists(file, file_path, entries)
             THEN [kind |-> "path", err |-> "", path |-> file_path]
             ELSE [kind |-> "error", err |-> "InputError", path |-> file_path]

\* Link without the digest check of line 154.
LinkUnchecked(file, file_path, st) ==
    IF HasEntry(st.entries, file.name) THEN st
    ELSE [st EXCEPT !.entries = @ \cup { Entry(file.name, file_path, "symlink_to") }]

\* Lines 153-158: check the digest, then link unless the target exists.
Link(file, file_path, st) ==
    IF maybe_check_digest(file, file_path) # ""
    THEN [st EXCEPT !.err = maybe_check_digest(file, file_path)]
    ELSE IF HasEntry(st.entries, file.name) THEN st
    ELSE [st EXCEPT !.entries = @ \cup { Entry(file.name, file_path, "symlink_to") }]

\* ExportFile with the link of lines 153-158 made for a lazy file as well,
\* to the place its url would be fetched to.
ExportFileLinksLazy(file, paths, st, net) ==
    LET r == Resolve(file, paths, st.entries, net)
    IN  CASE r.kind = "url" ->
               [st EXCEPT !.fetch_urls = { u \in @ : u[1] # file.name } \cup
                                          { <<file.name, file.url>> },
                          !.entries = @ \cup
                              { Entry(file.name, Path("cache", file.name), "symlink_to") }]
          [] r.kind = "error" -> [st EXCEPT !.err = r.err]
          [] OTHER -> Link(file, r.path, st)

\* Lines 136-158: one file.  st: [entries, fetch_urls, err, done], done the
\* number of files the loop got through.
ExportFile(file, paths, st, net) ==
    LET r == Resolve(file, paths, st.entries, net)
    IN  CASE r.kind = "url" ->
               [st EXCEPT !.fetch_urls = { u \in @ : u[1] # file.name } \cup
                                          { <<file.name, file.url>> }]
          [] r.kind = "error" -> [st EXCEPT !.err = r.err]
          [] OTHER -> Link(file, r.path, st)

\* Lines 136-158: the loop over files from the i-th on, left at the first error.
RECURSIVE ExportFiles(_, _, _, _, _)
ExportFiles(files, i, paths, st, net) ==
    IF i > Len(files) \/ st.err # "" THEN st
    ELSE LET next == ExportFile(files[i], paths, st, net)
         IN  ExportFiles(files, i + 1, paths,
                         IF next.err = "" THEN [next EXCEPT !.done = i] ELSE next, net)

\* Lines 160-188: lift.json, written once every file is resolved.
Manifest(app, plat, fetch_urls) ==
    [written |-> TRUE, files |-> Files(app, plat), bindings |-> Bindings(app, plat),
     fetch_urls |-> fetch_urls]

\* Line 106: shutil.rmtree(chroot, ignore_errors=True)
Rmtree(dir) == NoDir

\* Mkdir with exist_ok=True: an existing directory is taken as it is.
MkdirExistOk(dir, force) ==
    LET d == IF force THEN Rmtree(dir) ELSE dir
    IN  [err |-> "", dir |-> IF d.exists THEN d ELSE EmptyDir]

\* Mkdir with --force passed on as exist_ok instead of removing the directory.
MkdirForceKeeps(dir, force) ==
    IF dir.exists /\ ~force THEN [err |-> "FileExistsError", dir |-> dir]
    ELSE [err |-> "", dir |-> IF dir.exists THEN dir ELSE EmptyDir]

\* Lines 105-107: the directory after the rmtree of --force and the mkdir,
\* and whether the mkdir raised.
Mkdir(dir, force) ==
    LET d == IF force THEN Rmtree(dir) ELSE dir
    IN  IF d.exists THEN [err |-> "FileExistsError", dir |-> d]
        ELSE [err |-> "", dir |-> EmptyDir]

\* Lines 103-189 for one platform: the directory it leaves, the error it
\* raised ("" when it yields), and how many files it got through.
ExportPlatform(app, dir, force, plat, net) ==
    LET made == Mkdir(dir, force)
        files == Files(app, plat)
        start == [entries |-> IF AnyLazy(DeclaredFiles(app, plat))
                              THEN PtexLoaded(made.dir.entries, plat)
                              ELSE made.dir.entries,
                  fetch_urls |-> {}, err |-> "", done |-> 0]
        st == ExportFiles(files, 1, PathsById(app, plat), start, net)
    IN  IF made.err # "" THEN [err |-> made.err, dir |-> made.dir, done |-> 0]
        ELSE IF st.err # ""
        THEN [err |-> st.err, dir |-> [made.dir EXCEPT !.entries = st.entries],
              done |-> st.done]
        ELSE [err |-> "", done |-> st.done,
              dir |-> [exists |-> TRUE,
                       entries |-> st.entries \cup
                                   { Entry(LiftJson, Path("chroot", LiftJson), "open") },
                       manifest |-> Manifest(app, plat, st.fetch_urls)]]

----------------------------------------------------------------------------
(* The export command, lines 205-217 *)

NoOptions ==
    [force |-> FALSE, preserve_sandbox |-> FALSE, use_jump |-> FALSE,
     use_platform_suffix |-> FALSE, hash_functions |-> {}]

\* Line 213, and the call of _export of lines 214-216.
StartExport ==
    /\ pc \in {"idle", "done"}
    /\ \E force \in BOOLEAN : opts' = [NoOptions EXCEPT !.force = force]
    /\ cmd' = "export"
    /\ pc' = "export"
    /\ status' = "running"
    /\ remaining' = application.platforms
    /\ platform' = NoPlatform
    /\ files_done' = 0
    /\ chroots' = Aged(chroots)
    /\ stdout' = <<>>
    /\ UNCHANGED <<application, platforms, use_platform_suffix, td, dest_dir, warned,
                   jumps, packer_runs>>

\* The for loop of line 214 asks the generator for its next item: _export
\* runs lines 103-189 for one more platform, or ends.  A frozenset has no
\* order the code controls.
ExportNext ==
    /\ cmd = "export" /\ pc = "export"
    /\ IF remaining = {}
       THEN /\ pc' = "done"
            /\ status' = "ok"
            /\ UNCHANGED <<platform, files_done, chroots, remaining>>
       ELSE \E plat \in remaining, net \in BOOLEAN :
              LET r == ExportPlatform(application, chroots[plat], opts.force, plat, net)
              IN  /\ chroots' = [chroots EXCEPT ![plat] = r.dir]
                  /\ platform' = plat
                  /\ files_done' = r.done
                  /\ remaining' = remaining \ {plat}
                  /\ pc' = IF r.err = "" THEN "echo" ELSE "done"
                  /\ status' = IF r.err = "" THEN status ELSE r.err
    /\ UNCHANGED <<application, opts, cmd, platforms, use_platform_suffix, td, dest_dir,
                   stdout, warned, jumps, packer_runs>>

\* Line 217: click.echo(lift_manifest)
EchoManifest ==
    /\ cmd = "export" /\ pc = "echo"
    /\ stdout' = Append(stdout, <<platform, "lift.json">>)
    /\ pc' = "export"
    /\ UNCHANGED <<application, opts, cmd, status, platforms, use_platform_suffix,
                   remaining, platform, files_done, chroots, td, dest_dir, warned,
                   jumps, packer_runs>>

\* The destination directory of export before the first invocation: empty,
\* or holding a directory per platform that something else left there.
InitExport ==
    /\ application \in { a \in Applications : a.scie_jump = NoVersion }
    /\ chroots \in { [p \in PlatformValues |-> NoDir], [p \in PlatformValues |-> StaleDir] }
    /\ opts = NoOptions
    /\ cmd = "none"
    /\ pc = "idle"
    /\ status = "idle"
    /\ platforms = {}
    /\ use_platform_suffix = FALSE
    /\ remaining = {}
    /\ platform = NoPlatform
    /\ files_done = 0
    /\ td = "none"
    /\ dest_dir = {}
    /\ stdout = <<>>
    /\ warned = FALSE
    /\ jumps = {}
    /\ packer_runs = {}

NextExport == StartExport \/ ExportNext \/ EchoManifest

\* Invocations of `science export` against one destination directory.
SpecExport == InitExport /\ [][NextExport]_vars

----------------------------------------------------------------------------
(* The build command, lines 243-324 *)

\* Platform.binary_name(name) and Platform.qualified_binary_name(name)
binary_name(plat, name) == <<name, "">>
qualified_binary_name(plat, name) == <<name, plat>>

\* An entry of --dest-dir: a binary (ext "") or its checksum side-car.
DestFile(name, ext, plat) == [name |-> name, ext |-> ext, of |-> plat]

\* The --hash choices of the model: none, or two algorithms.
HashChoices == { {}, {"sha1", "sha256"} }

BuildOptions ==
    { [force |-> FALSE, preserve_sandbox |-> ps, use_jump |-> uj,
       use_platform_suffix |-> sfx, hash_functions |-> hs] :
        ps \in BOOLEAN, uj \in BOOLEAN, sfx \in BOOLEAN, hs \in HashChoices }

\* UsePlatformSuffix deciding by the number of declared platforms.
UsePlatformSuffixByCount(flag, declared) == flag \/ Cardinality(declared) > 1

\* Line 258
UsePlatformSuffix(flag, declared) == flag \/ declared # {current_platform}

\* Line 259: the condition of the warning and of the restriction.
MustRestrict(use_jump, suffix) == use_jump /\ suffix

\* RestrictedPlatforms with the assignment of line 269 left out.
RestrictedPlatformsKept(use_jump, suffix, declared) == declared

\* Lines 257-269: the platforms build goes on with.
RestrictedPlatforms(use_jump, suffix, declared) ==
    IF MustRestrict(use_jump, suffix) THEN {current_platform} ELSE declared

\* UnsupportedJump comparing the major versions only.
UnsupportedJumpByMajor(app) ==
    app.scie_jump # NoVersion /\ Head(app.scie_jump) < Head(ScieJumpFloor)

\* Lines 271-272: the declared scie-jump version is below the floor.
UnsupportedJump(app) ==
    app.scie_jump # NoVersion /\ VersionLess(app.scie_jump, ScieJumpFloor)

\* Lines 306-310
dst_binary_name(suffix, plat, name) ==
    IF suffix THEN qualified_binary_name(plat, name) ELSE binary_name(plat, name)

\* RunError with check=False: no exit code raises.
RunErrorUnchecked(exit_ok) == ""

\* Line 303, check=True: what subprocess.run raises for an exit code.
RunError(exit_ok) == IF exit_ok THEN "" ELSE "CalledProcessError"

\* StagingRootAfter with the removal after the yield instead of around it:
\* an error leaving the block skips it.
StagingRootAfterNoFinally(cleanup, root, how) ==
    IF cleanup /\ how = "running" THEN "deleted" ELSE root

\* Lines 85-91, on leaving the with block: the staging root afterwards.
\* how: the status the block is left with, which the code does not look at.
StagingRootAfter(cleanup, root, how) == IF cleanup THEN "deleted" ELSE root

\* Line 254
StartBuild ==
    /\ pc = "idle"
    /\ opts' \in BuildOptions
    /\ cmd' = "build"
    /\ pc' = "platforms"
    /\ status' = "running"
    /\ UNCHANGED <<application, platforms, use_platform_suffix, remaining, platform,
                   files_done, chroots, td, dest_dir, stdout, warned, jumps, packer_runs>>

\* Lines 256-269
SelectPlatforms ==
    /\ cmd = "build" /\ pc = "platforms"
    /\ LET suffix == UsePlatformSuffix(opts.use_platform_suffix, application.platforms)
       IN  /\ use_platform_suffix' = suffix
           /\ warned' = MustRestrict(opts.use_jump, suffix)
           /\ platforms' = RestrictedPlatforms(opts.use_jump, suffix, application.platforms)
    /\ pc' = "version"
    /\ UNCHANGED <<application, opts, cmd, status, remaining, platform, files_done,
                   chroots, td, dest_dir, stdout, jumps, packer_runs>>

\* Lines 271-278
CheckVersion ==
    /\ cmd = "build" /\ pc = "version"
    /\ IF UnsupportedJump(application)
       THEN pc' = "done" /\ status' = "SystemExit"
       ELSE pc' = "native_jump" /\ status' = status
    /\ UNCHANGED <<application, opts, cmd, platforms, use_platform_suffix, remaining,
                   platform, files_done, chroots, td, dest_dir, stdout, warned, jumps,
                   packer_runs>>

\* The scie-jump a_scie hands out: the custom build, or the release for plat.
Jump(use_jump, role, plat) ==
    [role |-> role, custom |-> use_jump, platform |-> IF use_jump THEN current_platform ELSE plat]

\* Lines 280-284
AcquireNativeJump ==
    /\ cmd = "build" /\ pc = "native_jump"
    /\ jumps' = jumps \cup { Jump(opts.use_jump, "native", current_platform) }
    /\ pc' = "enter"
    /\ UNCHANGED <<application, opts, cmd, status, platforms, use_platform_suffix,
                   remaining, platform, files_done, chroots, td, dest_dir, stdout,
                   warned, packer_runs>>

\* Line 285, entering the with block, and the call of _export of lines 286-292.
EnterTemporaryDirectory ==
    /\ cmd = "build" /\ pc = "enter"
    /\ td' = "exists"
    /\ chroots' = [p \in PlatformValues |-> NoDir]
    /\ remaining' = platforms
    /\ pc' = "export"
    /\ UNCHANGED <<application, opts, cmd, status, platforms, use_platform_suffix,
                   platform, files_done, dest_dir, stdout, warned, jumps, packer_runs>>

\* The for loop of line 286 asks the generator for its next item.
BuildExportNext ==
    /\ cmd = "build" /\ pc = "export"
    /\ IF remaining = {}
       THEN /\ pc' = "exit"
            /\ UNCHANGED <<platform, files_done, chroots, remaining, status>>
       ELSE \E plat \in remaining, net \in BOOLEAN :
              LET r == ExportPlatform(application, chroots[plat], FALSE, plat, net)
              IN  /\ chroots' = [chroots EXCEPT ![plat] = r.dir]
                  /\ platform' = plat
                  /\ files_done' = r.done
                  /\ remaining' = remaining \ {plat}
                  /\ pc' = IF r.err = "" THEN "pack" ELSE "exit"
                  /\ status' = IF r.err = "" THEN status ELSE r.err
    /\ UNCHANGED <<application, opts, cmd, platforms, use_platform_suffix, td, dest_dir,
                   stdout, warned, jumps, packer_runs>>

\* Lines 293-304: the packer child process, in the platform's directory.
RunPacker ==
    /\ cmd = "build" /\ pc = "pack"
    /\ jumps' = jumps \cup { Jump(opts.use_jump, "embedded", platform) }
    /\ \E exit_ok \in BOOLEAN :
         /\ packer_runs' = packer_runs \cup { [platform |-> platform, ok |-> exit_ok] }
         /\ chroots' = IF exit_ok
                       THEN [chroots EXCEPT ![platform].entries = @ \cup
                               { Entry(binary_name(current_platform, application.name),
                                       Path("chroot", binary_name(current_platform,
                                                                  application.name)),
                                       "packer") }]
                       ELSE chroots
         /\ pc' = IF RunError(exit_ok) = "" THEN "move" ELSE "exit"
         /\ status' = IF RunError(exit_ok) = "" THEN status ELSE RunError(exit_ok)
    /\ UNCHANGED <<application, opts, cmd, platforms, use_platform_suffix, remaining,
                   platform, files_done, td, dest_dir, stdout, warned>>

\* Lines 305-313: the packed binary moves to --dest-dir.
MoveBinary ==
    /\ cmd = "build" /\ pc = "move"
    /\ LET src == binary_name(current_platform, application.name)
           dst == dst_binary_name(use_platform_suffix, platform, application.name)
       IN  IF HasEntry(chroots[platform].entries, src)
           THEN /\ chroots' = [chroots EXCEPT ![platform].entries =
                                  { e \in @ : e.name # src }]
                /\ dest_dir' = { f \in dest_dir : ~(f.name = dst /\ f.ext = "") }
                                 \cup { DestFile(dst, "", platform) }
                /\ pc' = "hash"
                /\ status' = status
           ELSE /\ pc' = "exit"
                /\ status' = "FileNotFoundError"
                /\ UNCHANGED <<chroots, dest_dir>>
    /\ UNCHANGED <<application, opts, cmd, platforms, use_platform_suffix, remaining,
                   platform, files_done, td, stdout, warned, jumps, packer_runs>>

\* Lines 314-323: one side-car per requested hash function.
HashBinary ==
    /\ cmd = "build" /\ pc = "hash"
    /\ LET dst == dst_binary_name(use_platform_suffix, platform, application.name)
       IN  dest_dir' = { f \in dest_dir : ~(f.name = dst /\ f.ext \in opts.hash_functions) }
                         \cup { DestFile(dst, h, platform) : h \in opts.hash_functions }
    /\ pc' = "echo"
    /\ UNCHANGED <<application, opts, cmd, status, platforms, use_platform_suffix,
                   remaining, platform, files_done, chroots, td, stdout, warned, jumps,
                   packer_runs>>

\* Line 324: click.echo(dst_binary)
EchoBinary ==
    /\ cmd = "build" /\ pc = "echo"
    /\ stdout' = Append(stdout, <<platform, "binary">>)
    /\ pc' = "export"
    /\ UNCHANGED <<application, opts, cmd, status, platforms, use_platform_suffix,
                   remaining, platform, files_done, chroots, td, dest_dir, warned,
                   jumps, packer_runs>>

\* Lines 85-91 and 285: the with block is left, by its end or by an error.
ExitTemporaryDirectory ==
    /\ cmd = "build" /\ pc = "exit"
    /\ td' = StagingRootAfter(~opts.preserve_sandbox, td, status)
    /\ chroots' = IF td' = "deleted" THEN [p \in PlatformValues |-> NoDir] ELSE chroots
    /\ status' = IF status = "running" THEN "ok" ELSE status
    /\ pc' = "done"
    /\ UNCHANGED <<application, opts, cmd, platforms, use_platform_suffix, remaining,
                   platform, files_done, dest_dir, stdout, warned, jumps, packer_runs>>

\* The configurations of the build runs: what only the manifest shows (the
\* bindings, the fetch helper's argv1, a second way to supply a good local
\* file or to fail a fetch) is left to the export runs.
BuildApplications ==
    { a \in Applications :
        /\ a.bindings = <<>> /\ ~a.ptex.given /\ a.interpreters = <<>>
        /\ \A i \in DOMAIN a.files :
              /\ a.files[i] # LocalFile(a.files[i].id, Fingerprint(Bytes), FALSE, TRUE)
              /\ a.files[i] # FetchFile(a.files[i].id, Fingerprint(OtherBytes), FALSE) }

InitBuild ==
    /\ application \in BuildApplications
    /\ chroots = [p \in PlatformValues |-> NoDir]
    /\ opts = NoOptions
    /\ cmd = "none"
    /\ pc = "idle"
    /\ status = "idle"
    /\ platforms = {}
    /\ use_platform_suffix = FALSE
    /\ remaining = {}
    /\ platform = NoPlatform
    /\ files_done = 0
    /\ td = "none"
    /\ dest_dir = {}
    /\ stdout = <<>>
    /\ warned = FALSE
    /\ jumps = {}
    /\ packer_runs = {}

NextBuild ==
    \/ StartBuild \/ SelectPlatforms \/ CheckVersion \/ AcquireNativeJump
    \/ EnterTemporaryDirectory \/ BuildExportNext \/ RunPacker \/ MoveBinary
    \/ HashBinary \/ EchoBinary \/ ExitTemporaryDirectory

\* One invocation of `science build`.
SpecBuild == InitBuild /\ [][NextBuild]_vars

----------------------------------------------------------------------------
(* Properties of build, checked under SpecBuild *)

\* The platforms whose directory _export has been asked for in this invocation.
Reached == platforms \ remaining

\* The build has raised: an export error or a packer failure.
Failed == status \notin {"idle", "running", "ok", "SystemExit"}

\* The final binary of plat lies in --dest-dir.
HasBinary(plat) == \E f \in dest_dir : f.of = plat /\ f.ext = ""

Echoed(plat) == \E i \in DOMAIN stdout : stdout[i][1] = plat

\* C1: with --use-jump and a configuration that declares more than one
\* platform, build goes on (it does not abort at the restriction) with
\* exactly the current platform, after a warning: nothing is exported,
\* packed or delivered for any other platform, and a build that succeeds
\* has exported, packed and delivered the current platform.
C1_CustomJumpRestrictsToCurrent ==
    (cmd = "build" /\ opts.use_jump /\ Cardinality(application.platforms) > 1
        /\ pc \notin {"idle", "platforms"}) =>
       /\ platforms = {current_platform}
       /\ warned
       /\ pc = "version" => status = "running"
       /\ \A p \in PlatformValues \ {current_platform} :
            ~chroots[p].exists /\ ~HasBinary(p) /\ ~Echoed(p)
       /\ \A r \in packer_runs : r.platform = current_platform
       /\ status = "ok" =>
            /\ packer_runs = { [platform |-> current_platform, ok |-> TRUE] }
            /\ HasBinary(current_platform)
            /\ stdout = << <<current_platform, "binary">> >>

\* C1 witness: such a build has run to its successful end.
C1_Witness ==
    /\ cmd = "build" /\ opts.use_jump /\ application.platforms = PlatformValues
    /\ pc = "done" /\ status = "ok" /\ warned /\ HasBinary(current_platform)

\* C2: a declared scie-jump version below 0.9.0 stops build before any
\* platform: no scie-jump is acquired, no staging root or per-platform
\* directory is made, no packer runs, nothing is delivered or reported, and
\* the invocation ends with the exit of line 275.
C2_OldJumpAbortsBeforePlatforms ==
    (cmd = "build" /\ application.scie_jump # NoVersion
        /\ VersionLess(application.scie_jump, <<0, 9, 0>>)) =>
       /\ pc \in {"platforms", "version", "done"}
       /\ pc = "done" => status = "SystemExit"
       /\ jumps = {}
       /\ td = "none"
       /\ \A p \in PlatformValues : ~chroots[p].exists
       /\ packer_runs = {}
       /\ dest_dir = {}
       /\ stdout = <<>>

\* C2 witness: a multi-platform build that ended at the version check.
C2_Witness ==
    /\ cmd = "build" /\ application.scie_jump = <<0, 8, 12>>
    /\ Cardinality(application.platforms) > 1
    /\ pc = "done" /\ status = "SystemExit"

\* C7: once a step for a platform has failed, build does nothing more but
\* leave the staging root: the failed platform has no packed binary
\* delivered or reported, the platforms after it have no directory, no
\* packer run, no binary and no report, the platforms before it keep their
\* binary (with its side-cars) in --dest-dir, and the invocation never
\* ends as a success.  A packer that exits non-zero is such a failure.
C7_FailureAbortsBuild ==
    /\ \A r \in packer_runs : ~r.ok => status = "CalledProcessError"
    /\ (cmd = "build" /\ Failed) =>
         /\ pc \in {"exit", "done"}
         /\ ~HasBinary(platform) /\ ~Echoed(platform)
         /\ \A r \in packer_runs : r.platform = platform => ~r.ok
         /\ \A p \in remaining :
              /\ ~chroots[p].exists /\ ~HasBinary(p) /\ ~Echoed(p)
              /\ \A r \in packer_runs : r.platform # p
         /\ \A p \in Reached \ {platform} :
              /\ DestFile(dst_binary_name(use_platform_suffix, p, application.name), "", p)
                    \in dest_dir
              /\ \A h \in opts.hash_functions :
                    DestFile(dst_binary_name(use_platform_suffix, p, application.name), h, p)
                        \in dest_dir
              /\ Echoed(p)

\* C7 witness: the second of two platforms failed, in its export or in its
\* packer, and the first one's binary is still delivered.
C7_Witness ==
    /\ cmd = "build" /\ Failed /\ pc = "done"
    /\ Cardinality(platforms) > 1 /\ remaining = {}
    /\ \E p \in platforms \ {platform} : HasBinary(p)

\* C8: when build ends after making the staging root, the root is deleted,
\* whether the build succeeded or failed, unless --preserve-sandbox is
\* given; then the root and the directories of the platforms reached are
\* still there.
C8_StagingRootScoped ==
    (cmd = "build" /\ pc = "done" /\ status # "SystemExit") =>
       /\ td # "none"
       /\ ~opts.preserve_sandbox =>
            td = "deleted" /\ \A p \in PlatformValues : ~chroots[p].exists
       /\ opts.preserve_sandbox =>
            td = "exists" /\ \A p \in Reached : chroots[p].exists

\* C8 witness: a failed build without --preserve-sandbox has ended.
C8_Witness ==
    /\ cmd = "build" /\ pc = "done" /\ status = "CalledProcessError"
    /\ ~opts.preserve_sandbox /\ td = "deleted"

\* C9 as stated: the binary gets the platform-qualified name when more than
\* one platform is built or --use-platform-suffix is given, and the bare
\* application name when exactly one platform is built without the option.
C9_Original ==
    \A f \in dest_dir :
        f.ext = "" =>
            f.name = IF Cardinality(platforms) > 1 \/ opts.use_platform_suffix
                     THEN qualified_binary_name(f.of, application.name)
                     ELSE binary_name(f.of, application.name)

\* C9 as amended: the binary gets the platform-qualified name when
\* --use-platform-suffix is given or the configuration declares anything
\* other than exactly the current platform, and the bare application name
\* when it declares exactly the current platform and the option is absent.
C9_SuffixUnlessCurrentOnly ==
    \A f \in dest_dir :
        f.ext = "" =>
            f.name = IF opts.use_platform_suffix \/ application.platforms # {current_platform}
                     THEN qualified_binary_name(f.of, application.name)
                     ELSE binary_name(f.of, application.name)

\* C9 witness: one platform built, no option, and a qualified name.
C9_Witness ==
    /\ cmd = "build" /\ Cardinality(platforms) = 1 /\ ~opts.use_platform_suffix
    /\ \E f \in dest_dir :
         f.ext = "" /\ f.name = qualified_binary_name(f.of, application.name)

----------------------------------------------------------------------------
(* Properties of export, checked under SpecExport *)

\* The platforms this invocation of export has exported: _export yielded
\* for them.
Exported ==
    { p \in application.platforms \ remaining :
        p # platform \/ status \in {"running", "ok"} }

\* A previous invocation left a manifest in the directory of every platform
\* of the application.
ExportedBefore ==
    \A p \in application.platforms :
        /\ chroots[p].exists /\ chroots[p].manifest.written
        /\ \E e \in chroots[p].entries : e.name = LiftJson /\ ~e.fresh

\* ... and at least one link in each.
LinkedBefore ==
    /\ ExportedBefore
    /\ \A p \in application.platforms :
          \E e \in chroots[p].entries : e.by = "symlink_to" /\ ~e.fresh

EntryNames(dir) == { e.name : e \in dir.entries }

\* The names of the files of plat's working set that are not lazily fetched.
LinkedNames(plat) ==
    { Files(application, plat)[i].name :
        i \in { j \in DOMAIN Files(application, plat) :
                  ~(Files(application, plat)[j].source = "Fetch"
                      /\ Files(application, plat)[j].lazy) } }

\* C3 as stated: an export without --force into a destination where a
\* previous export of the application left its links does not fail.
C3_Original ==
    (cmd = "export" /\ ~opts.force /\ pc = "done" /\ LinkedBefore) => status = "ok"

\* C3 as amended: an export without --force into a destination that a
\* previous export of the application filled fails at the creation of the
\* first per-platform directory it comes to, which exists, before it
\* resolves or links any file, and leaves every directory as it was.
C3_RerunFailsLeavingLinks ==
    [][(cmd = "export" /\ ~opts.force /\ pc = "export" /\ ExportedBefore) =>
          /\ status' = "FileExistsError"
          /\ pc' = "done"
          /\ files_done' = 0
          /\ chroots' = chroots]_vars

\* C3 witness: such a second export has ended, over links of the first.
C3_Witness ==
    /\ cmd = "export" /\ ~opts.force /\ pc = "done" /\ LinkedBefore
    /\ status = "FileExistsError"

\* C4: a platform that export --force has exported has a directory made
\* by this export alone: every entry in it is a link this invocation made
\* for a file of the working set, or its lift.json, and nothing that was
\* there before is left.
C4_ForceLeavesOnlyThisExport ==
    (cmd = "export" /\ opts.force) =>
        \A p \in Exported :
            /\ chroots[p].exists
            /\ \A e \in chroots[p].entries :
                 e.fresh /\ e.by \in {"symlink_to", "ptex", "open"}
            /\ EntryNames(chroots[p]) = LinkedNames(p) \cup {LiftJson}

\* C4 witness: a platform is exported with --force while the directory of
\* another still holds what was there from the start, as this one's did.
C4_Witness ==
    /\ cmd = "export" /\ opts.force /\ pc = "echo"
    /\ \E e \in chroots[platform].entries : e.by = "symlink_to"
    /\ \E p \in remaining : HasEntry(chroots[p].entries, Named("stale"))

\* C5: in an exported platform every file of the working set is either in
\* the fetch-URL table under its name with its url, and then has no link,
\* or linked under its name in the directory, and then is not in the
\* table: the first for a lazy fetch, the second for any other source.
C5_UrlOrLinkNeverBoth ==
    cmd = "export" =>
        \A p \in Exported :
            \A i \in DOMAIN Files(application, p) :
                LET file == Files(application, p)[i]
                    inTable == \E u \in chroots[p].manifest.fetch_urls : u[1] = file.name
                    linked == HasEntry(chroots[p].entries, file.name)
                IN  IF file.source = "Fetch" /\ file.lazy
                    THEN /\ <<file.name, file.url>> \in chroots[p].manifest.fetch_urls
                         /\ ~linked
                    ELSE linked /\ ~inTable

\* C5 witness: the application of the end-to-end example, a mapped local
\* file and a lazy one, is exported.
C5_Witness ==
    /\ cmd = "export" /\ pc = "echo" /\ Len(application.files) = 2
    /\ application.files[1] = LocalFile("a", NoDigest, TRUE, TRUE)
    /\ application.files[2] = FetchFile("b", NoDigest, TRUE)
    /\ HasEntry(chroots[platform].entries, Named("a"))
    /\ <<Named("b"), "b">> \in chroots[platform].manifest.fetch_urls

\* C6: no file with a declared digest that its resolved content does not
\* have gets past resolution; an export that fails with a digest mismatch
\* fails at such a file, has not linked it and has written no manifest;
\* and files whose content has the declared digest are linked.
C6_DigestDecidesResolution ==
    (cmd = "export" /\ platform # NoPlatform /\ status # "FileExistsError") =>
        LET files == Files(application, platform)
            Mismatch(f) == /\ ~(f.source = "Fetch" /\ f.lazy)
                           /\ f.digest # NoDigest
                           /\ f.digest # Fingerprint(f.content)
        IN  /\ \A i \in 1..files_done : ~Mismatch(files[i])
            /\ \A i \in 1..files_done :
                 (files[i].digest = Fingerprint(files[i].content)
                    /\ ~(files[i].source = "Fetch" /\ files[i].lazy))
                 => HasEntry(chroots[platform].entries, files[i].name)
            /\ status \in {"running", "ok"} => files_done = Len(files)
            /\ status = "DigestMismatch" =>
                 /\ files_done < Len(files)
                 /\ Mismatch(files[files_done + 1])
                 /\ ~HasEntry(chroots[platform].entries, files[files_done + 1].name)
                 /\ ~chroots[platform].manifest.written
                 /\ ~HasEntry(chroots[platform].entries, LiftJson)
            /\ (files_done < Len(files) /\ status \in {"InputError", "FetchFailed"}) =>
                 ~(files[files_done + 1].source = "None"
                     /\ files[files_done + 1].on_disk
                     /\ Mismatch(files[files_done + 1]))

\* C6 witness: a local file with a wrong digest failed the export after an
\* earlier file with the right digest was linked.
C6_Witness ==
    /\ cmd = "export" /\ pc = "done" /\ status = "DigestMismatch"
    /\ files_done >= 1
    /\ \E i \in 1..files_done :
         Files(application, platform)[i].digest = Fingerprint(Bytes)
    /\ Files(application, platform)[files_done + 1].source = "None"

\* C10: in an exported platform the fetch helper is in the manifest's files
\* and a binding that runs it is in the manifest's bindings exactly when a
\* distribution file or a declared file is lazily fetched; then that
\* binding comes first and the declared bindings follow in their order;
\* otherwise the bindings are the declared ones.
C10_FetchHelperIffLazy ==
    cmd = "export" =>
        \A p \in Exported :
            LET m == chroots[p].manifest
                lazy == \/ \E i \in DOMAIN application.files :
                              application.files[i].source = "Fetch"
                                 /\ application.files[i].lazy
                        \/ \E i \in DOMAIN application.interpreters :
                              /\ p \in application.interpreters[i].supported
                              /\ application.interpreters[i].lazy
                helper == \E i \in DOMAIN m.files : m.files[i].id = "ptex"
                bound == \E i \in DOMAIN m.bindings : m.bindings[i].name = "fetch"
            IN  /\ m.written
                /\ helper <=> lazy
                /\ bound <=> lazy
                /\ lazy => /\ m.bindings # <<>>
                           /\ Head(m.bindings).name = "fetch"
                           /\ Head(m.bindings).exe = <<"ptex", p>>
                           /\ Tail(m.bindings) = application.bindings
                /\ ~lazy => m.bindings = application.bindings

\* C10 witness: a platform whose only lazy file is its distribution's is
\* exported with declared bindings behind the synthesized one.
C10_Witness ==
    /\ cmd = "export" /\ pc = "echo"
    /\ application.bindings # <<>>
    /\ \A i \in DOMAIN application.files : ~application.files[i].lazy
    /\ Len(chroots[platform].manifest.bindings) = Len(application.bindings) + 1

====
